---------------------------- MODULE Spec2Model ----------------------------
(***************************************************************************)
(* A model of monitor.py (FirehoseMonitor / EnhancedStats): the ingestion  *)
(* thread running process_post, the single file_writer thread draining     *)
(* file_queue, the main thread of start() (display loop, shutdown, final   *)
(* analytics export) and the per-author files on disk.                     *)
(*                                                                         *)
(* Time is the wall clock of time.time() in whole seconds.  A table file   *)
(* is a sequence of whole rows.                                            *)
(***************************************************************************)
EXTENDS Integers, Sequences, FiniteSets, TLC

(***************************************************************************)
(* Bounds of the model.                                                    *)
(***************************************************************************)
\* records delivered to process_post over the whole behaviour
MaxEvents == 2
\* environment errors (a failing open or write, a psutil error) over the whole
\* behaviour
MaxFaults == 1
\* process restarts (SpecRestart only)
MaxRestarts == 1
\* records delivered in SpecRecent
MaxRecent == 6
\* last value of the wall clock in SpecHours
MaxHourTime == 7200
\* records delivered and hours passing in SpecFull, after its initial state
MaxFullEvents == 2
MaxFullHours == 2
\* records delivered in SpecStop
MaxStopEvents == 2
\* last value of the wall clock (SpecWin only)
MaxTime == 125

(***************************************************************************)
(* Program constants.                                                      *)
(***************************************************************************)
\* update_time_based_metrics: seconds per minute window
MinuteSeconds == 60
\* update_time_based_metrics: seconds per hour window
HourSeconds == 3600
\* deque(maxlen=60), deque(maxlen=24)
MinuteHistoryLen == 60
HourHistoryLen == 24
\* deque(maxlen=5) of recent posts, deque(maxlen=1000) of processing times
RecentPostsLen == 5
ProcessingTimesLen == 1000

(***************************************************************************)
(* Inputs: author DIDs (sequences of characters) and decoded records.      *)
(***************************************************************************)
Authors == { <<"d", ":", "a">>, <<"d", ":", "b">> }

\* further authors, of the records of SpecRow and SpecRecent
DidAbc == <<"d", "i", "d", ":", "a", "b", "c">>
MoreAuthors == { DidAbc, <<"d", ":", "c">>, <<"d", ":", "e">> }
AllAuthors == Authors \cup MoreAuthors

\* get_user_dir: re.sub(r'[<>:"/\\|?*]', '_', author_did)
UnsafeChars == {"<", ">", ":", "\"", "/", "\\", "|", "?", "*"}

safe_did(author_did) ==
    [i \in 1..Len(author_did) |->
        IF author_did[i] \in UnsafeChars THEN "_" ELSE author_did[i]]

Tables == {"posts", "links", "media"}

\* get_user_files: the path of one table file of an author
user_file(author_did, table) == <<safe_did(author_did), table>>

\* the table files of the authors whose tasks the writer handles (the
\* specifications with records of the further authors have no writer)
UserDirs == { safe_did(a) : a \in Authors }
Files == UserDirs \X Tables

(***************************************************************************)
(* A record (raw_data) as far as process_post and write_to_user_files look *)
(* at it.  Strings are sequences of characters.  facets is a sequence of   *)
(* facets, each a sequence of features [type, uri]; embed is "absent" (no  *)
(* key), "null" (key present, value not a dict), "images" or "external";   *)
(* images is the length of embed.images (items without alt or mime);       *)
(* reply tells whether the key is present, with the parent and root uris   *)
(* that the chain of get() finds ('' when absent).                         *)
(***************************************************************************)
\* a well-formed link uri, "h://a/p", and "not-a-url"
GoodUri == <<"h", ":", "/", "/", "a", "/", "p">>
BadUri == <<"n", "o", "t", "-", "a", "-", "u", "r", "l">>

link(uri) == [type |-> "link", uri |-> uri]

NoReply == [present |-> FALSE, parent |-> <<>>, root |-> <<>>]
reply_to(parent, root) == [present |-> TRUE, parent |-> parent, root |-> root]

Shapes ==
    { [facets |-> <<>>,                   embed |-> "absent", images |-> 0],
      [facets |-> << <<link(GoodUri)>> >>, embed |-> "absent", images |-> 0],
      [facets |-> <<>>,                   embed |-> "images", images |-> 1],
      [facets |-> <<>>,                   embed |-> "null",   images |-> 0] }

\* a record of the given author and shape with text and createdAt
event(a, s, text, createdAt, reply) ==
    [author |-> a, facets |-> s.facets, embed |-> s.embed, images |-> s.images,
     text |-> text, createdAt |-> createdAt, reply |-> reply]

Events == { event(a, s, <<>>, <<>>, NoReply) : a \in Authors, s \in Shapes }

(***************************************************************************)
(* The records of SpecRow: records with text, link uris, a reply.          *)
(***************************************************************************)
\* "hello #world" and "2024-01-01T00:00:00Z"
HelloWorld == <<"h", "e", "l", "l", "o", " ", "#", "w", "o", "r", "l", "d">>
ScenarioTime == <<"2", "0", "2", "4", "-", "0", "1", "-", "0", "1", "T",
                  "0", "0", ":", "0", "0", ":", "0", "0", "Z">>
\* " say  \"hi\" #Tag #tag\n"
QuotedText == <<" ", "s", "a", "y", " ", " ", "\"", "h", "i", "\"", " ",
                "#", "T", "a", "g", " ", "#", "t", "a", "g", "\n">>
ParentUri == <<"a", "t", ":", "/", "/", "p">>
RootUri == <<"a", "t", ":", "/", "/", "r">>

mention == [type |-> "mention", uri |-> <<>>]

\* {author: did:abc, text: "hello #world", createdAt: ..., facets: [], embed: null}
ScenarioEvent ==
    event(DidAbc, [facets |-> <<>>, embed |-> "null", images |-> 0],
          HelloWorld, ScenarioTime, NoReply)

RowEvents ==
    { ScenarioEvent,
      \* the same record without the embed key
      event(DidAbc, [facets |-> <<>>, embed |-> "absent", images |-> 0],
            HelloWorld, ScenarioTime, NoReply),
      \* one link feature, its uri "not-a-url"
      event(<<"d", ":", "a">>,
            [facets |-> << <<link(BadUri)>> >>, embed |-> "absent", images |-> 0],
            <<>>, ScenarioTime, NoReply),
      \* two link features and a mention in two facets, two images, a reply
      event(<<"d", ":", "b">>,
            [facets |-> << <<link(GoodUri), mention>>, <<link(BadUri)>> >>,
             embed |-> "images", images |-> 2],
            QuotedText, ScenarioTime, reply_to(ParentUri, RootUri)),
      \* a facet without link features, an embed that is not images
      event(<<"d", ":", "a">>,
            [facets |-> << <<mention>> >>, embed |-> "external", images |-> 0],
            HelloWorld, <<>>, NoReply) }

NoEvent == [author |-> <<>>, facets |-> <<>>, embed |-> "absent", images |-> 0,
            text |-> <<>>, createdAt |-> <<>>, reply |-> NoReply]

RECURSIVE CountLinks(_)
\* number of features of type app.bsky.richtext.facet#link in one facet
CountLinks(features) ==
    IF features = <<>> THEN 0
    ELSE (IF Head(features).type = "link" THEN 1 ELSE 0) + CountLinks(Tail(features))

RECURSIVE link_count(_)
\* write_to_user_files: sum(1 for facet ... for feature ... if link)
link_count(facets) ==
    IF facets = <<>> THEN 0
    ELSE CountLinks(Head(facets)) + link_count(Tail(facets))

\* write_to_user_files: has_links = bool(raw_data.get('facets', []))
has_links(e) == e.facets # <<>>

\* write_to_user_files: has_images (evaluated only when embed is a dict)
has_images(e) == e.embed = "images"

\* write_to_user_files: image_count
image_count(e) == IF has_images(e) THEN e.images ELSE 0

RECURSIVE link_uris_of(_)
\* feature.get('uri', '') of the link features of one facet, in order
link_uris_of(features) ==
    IF features = <<>> THEN <<>>
    ELSE (IF Head(features).type = "link" THEN <<Head(features).uri>> ELSE <<>>)
             \o link_uris_of(Tail(features))

RECURSIVE link_uris(_)
\* the uris of all link features of the record, in the order of the two loops
link_uris(facets) ==
    IF facets = <<>> THEN <<>>
    ELSE link_uris_of(Head(facets)) \o link_uris(Tail(facets))

(***************************************************************************)
(* Text utilities: clean_text, extract_hashtags, extract_domains, str().   *)
(***************************************************************************)
\* the whitespace of str.strip() and of \s
Whitespace == {" ", "\t", "\n"}

\* the characters of \w
UpperCase == <<"A", "B", "C", "D", "E", "F", "G", "H", "I", "J", "K", "L", "M",
               "N", "O", "P", "Q", "R", "S", "T", "U", "V", "W", "X", "Y", "Z">>
LowerCase == <<"a", "b", "c", "d", "e", "f", "g", "h", "i", "j", "k", "l", "m",
               "n", "o", "p", "q", "r", "s", "t", "u", "v", "w", "x", "y", "z">>
Digits == <<"0", "1", "2", "3", "4", "5", "6", "7", "8", "9">>
WordChars ==
    { UpperCase[i] : i \in DOMAIN UpperCase } \cup { LowerCase[i] : i \in DOMAIN LowerCase }
        \cup { Digits[i] : i \in DOMAIN Digits } \cup {"_"}

RECURSIVE lstrip(_)
\* the text without its leading whitespace
lstrip(text) ==
    IF text = <<>> \/ Head(text) \notin Whitespace THEN text ELSE lstrip(Tail(text))

RECURSIVE rstrip(_)
\* the text without its trailing whitespace
rstrip(text) ==
    IF text = <<>> \/ text[Len(text)] \notin Whitespace THEN text
    ELSE rstrip(SubSeq(text, 1, Len(text) - 1))

RECURSIVE collapse(_)
\* re.sub(r'\s+', ' ', text)
collapse(text) ==
    IF text = <<>> THEN <<>>
    ELSE IF Head(text) \in Whitespace THEN <<" ">> \o collapse(lstrip(text))
    ELSE <<Head(text)>> \o collapse(Tail(text))

RECURSIVE double_quotes(_)
\* text.replace('"', '""')
double_quotes(text) ==
    IF text = <<>> THEN <<>>
    ELSE (IF Head(text) = "\"" THEN <<"\"", "\"">> ELSE <<Head(text)>>)
             \o double_quotes(Tail(text))

\* clean_text: strip, collapse whitespace, double the quotes
clean_text(text) == double_quotes(collapse(rstrip(lstrip(text))))

RECURSIVE word(_)
\* the longest prefix of \w characters
word(text) ==
    IF text = <<>> \/ Head(text) \notin WordChars THEN <<>>
    ELSE <<Head(text)>> \o word(Tail(text))

RECURSIVE extract_hashtags(_)
\* re.findall(r'#(\w+)', text)
extract_hashtags(text) ==
    IF text = <<>> THEN <<>>
    ELSE IF Head(text) = "#" /\ word(Tail(text)) # <<>>
         THEN <<word(Tail(text))>>
                  \o extract_hashtags(SubSeq(text, 2 + Len(word(Tail(text))), Len(text)))
         ELSE extract_hashtags(Tail(text))

\* tag.lower()
lower(tag) ==
    [i \in 1..Len(tag) |->
        IF \E j \in DOMAIN UpperCase : UpperCase[j] = tag[i]
        THEN LowerCase[CHOOSE j \in DOMAIN UpperCase : UpperCase[j] = tag[i]]
        ELSE tag[i]]

RECURSIVE split(_, _)
\* url.split(sep)
split(url, sep) ==
    IF \E i \in 1..Len(url) : url[i] = sep
    THEN LET i == CHOOSE i \in 1..Len(url) :
                      url[i] = sep /\ \A j \in 1..(i - 1) : url[j] # sep
         IN  <<SubSeq(url, 1, i - 1)>> \o split(SubSeq(url, i + 1, Len(url)), sep)
    ELSE <<url>>

Unknown == <<"u", "n", "k", "n", "o", "w", "n">>

\* extract_domains: url.split('/')[2], "unknown" on IndexError
extract_domains(url) ==
    IF Len(split(url, "/")) >= 3 THEN split(url, "/")[3] ELSE Unknown

RECURSIVE str(_)
\* str(n) of a natural number
str(n) ==
    IF n < 10 THEN <<Digits[n + 1]>>
    ELSE str(n \div 10) \o <<Digits[(n % 10) + 1]>>

\* '1' if flag else '0'
flag(b) == IF b THEN <<"1">> ELSE <<"0">>

\* an empty defaultdict(int) and d[key] += 1
EmptyMap == [x \in {} |-> 0]
increment(d, key) ==
    [x \in DOMAIN d \cup {key} |->
        IF x = key THEN (IF key \in DOMAIN d THEN d[key] + 1 ELSE 1) ELSE d[x]]

(***************************************************************************)
(* State.                                                                  *)
(***************************************************************************)
VARIABLES
    \* ---- the data directory (survives the process)
    dirs,            \* user directories that exist
    counted,         \* user directories holding the .counted marker
    exists,          \* table files that exist
    content,         \* content[f]: the rows of table file f, in file order
    analytics,       \* number of analytics_<ts>.json files written
    \* ---- EnhancedStats
    start_time,
    total_users,
    total_posts,
    posts_this_minute,
    posts_per_minute,
    posts_per_hour,
    last_minute_timestamp,
    last_hour_timestamp,
    posts_with_images,
    posts_with_links,
    popular_domains,     \* defaultdict(int): domain -> count
    hashtag_stats,       \* defaultdict(int): lower-cased tag -> count
    recent_posts,        \* deque(maxlen=5), front first: (time, author_did, text)
    processing_times,    \* deque(maxlen=1000) of seconds per record
    \* ---- FirehoseMonitor
    file_queue,          \* Queue(): write tasks and the poison pill, head first
    last_system_update,  \* self._last_system_update, -1 while the attribute is unset
    \* ---- ingestion thread (client thread running process_post)
    ipc,             \* position inside process_post
    cur,             \* raw_data / author_did of the record being processed
    k,               \* loop position inside write_to_user_files
    \* ---- writer thread (file_writer)
    wpc,             \* position inside file_writer
    data,            \* the task taken from the queue
    file_exists,     \* file_writer's local file_exists
    opened,          \* open handles on table files: <<thread, file>>
    \* ---- main thread (start)
    mpc,
    dpc,             \* position inside update_display
    shown,           \* the statistics update_display has read for the panels
    \* ---- the wall clock
    now,
    \* ---- history (not program state)
    nput,            \* tasks put on file_queue so far; a task's id is its put number
    pill_id,         \* value of nput when the poison pill was put, 0 before
    handled,         \* ids of the tasks file_writer has finished with
    failed_writes,   \* ids of the tasks whose append raised
    evlog,           \* one entry per record handed to process_post
    first_seen,      \* first_seen[a]: completed first-seen branches for author a
    ev_times,        \* clock values read by update_time_based_metrics, this process
    faults,          \* environment errors so far
    restarts,
    boundaries       \* the statistics as they were between two calls of process_post

fsvars == <<dirs, counted, exists, content, analytics>>
countvars == <<start_time, total_users, total_posts, posts_this_minute, posts_per_minute,
               posts_per_hour, last_minute_timestamp, last_hour_timestamp>>
postvars == <<posts_with_images, posts_with_links, popular_domains, hashtag_stats,
              recent_posts>>
statvars == <<countvars, postvars, processing_times>>
ingvars == <<ipc, cur, k>>
wrvars == <<wpc, data, file_exists, opened>>
histvars == <<nput, pill_id, handled, failed_writes, evlog, first_seen, ev_times>>
dispvars == <<dpc, shown, boundaries>>
vars == <<fsvars, statvars, file_queue, last_system_update, ingvars, wrvars, mpc,
          now, histvars, faults, restarts, dispvars>>

\* what generate_header and generate_metrics_panel read
MetricsView ==
    [start_time |-> start_time, total_users |-> total_users, total_posts |-> total_posts,
     posts_this_minute |-> posts_this_minute, posts_per_minute |-> posts_per_minute,
     posts_with_images |-> posts_with_images, posts_with_links |-> posts_with_links]

\* what generate_performance_panel, generate_recent_posts_panel and
\* generate_analytics_panel read
PanelsView ==
    [processing_times |-> processing_times, recent_posts |-> recent_posts,
     popular_domains |-> popular_domains, hashtag_stats |-> hashtag_stats]

\* the statistics the display reads, all at one moment
View == [metrics |-> MetricsView, panels |-> PanelsView]

Pill == [id |-> 0, file |-> <<>>, ev |-> 0, row |-> <<>>]
NoTask == [id |-> -1, file |-> <<>>, ev |-> 0, row |-> <<>>]

HeaderRow == [kind |-> "header", id |-> 0, ev |-> 0]
DataRow(task) == [kind |-> "row", id |-> task.id, ev |-> task.ev]

\* Whether the process is running: start() has not returned.
Running == mpc # "exited"

(***************************************************************************)
(* EnhancedStats.__init__ and FirehoseMonitor.__init__                     *)
(***************************************************************************)
\* EnhancedStats.__init__ at clock value t
StatsInit(t) ==
    /\ start_time = t
    /\ total_posts = 0
    /\ posts_this_minute = 0
    /\ posts_per_minute = <<>>
    /\ posts_per_hour = <<>>
    /\ last_minute_timestamp = t
    /\ last_hour_timestamp = t
    /\ posts_with_images = 0
    /\ posts_with_links = 0
    /\ popular_domains = EmptyMap
    /\ hashtag_stats = EmptyMap
    /\ recent_posts = <<>>
    /\ processing_times = <<>>

Init ==
    /\ dirs = {}
    /\ counted = {}
    /\ exists = {}
    /\ content = [f \in Files |-> <<>>]
    /\ analytics = 0
    /\ StatsInit(0)
    /\ total_users = 0
    /\ file_queue = <<>>
    /\ last_system_update = -1
    /\ ipc = "idle"
    /\ cur = NoEvent
    /\ k = 0
    /\ wpc = "get"
    /\ data = NoTask
    /\ file_exists = FALSE
    /\ opened = {}
    /\ mpc = "display"
    /\ dpc = "metrics"
    /\ shown = View
    /\ boundaries = {View}
    /\ now = 0
    /\ nput = 0
    /\ pill_id = 0
    /\ handled = {}
    /\ failed_writes = {}
    /\ evlog = <<>>
    /\ first_seen = [a \in AllAuthors |-> 0]
    /\ ev_times = <<>>
    /\ faults = 0
    /\ restarts = 0


(***************************************************************************)
(* Queue() and deque(maxlen=n)                                             *)
(***************************************************************************)
\* put with the item placed at the head: a LIFO queue
put_front(q, item) == <<item>> \o q

\* Queue.put: the item goes to the tail
put(q, item) == Append(q, item)

\* Queue.get: the item at the head (the caller blocks while the queue is empty)
get(q) == Head(q)

\* append on a full deque discarding the newest entry instead of the oldest
deque_append_drop_newest(d, x, maxlen) ==
    IF Len(d) >= maxlen THEN Append(SubSeq(d, 1, Len(d) - 1), x) ELSE Append(d, x)

\* deque.append on a deque(maxlen=maxlen): the oldest entry is dropped when full
deque_append(d, x, maxlen) ==
    IF Len(d) >= maxlen THEN Append(Tail(d), x) ELSE Append(d, x)

RECURSIVE Sum(_)
Sum(s) == IF s = <<>> THEN 0 ELSE Head(s) + Sum(Tail(s))

\* appendleft on a deque without maxlen: nothing is discarded
deque_appendleft_unbounded(d, x, maxlen) == <<x>> \o d

\* deque.appendleft on a deque(maxlen): the last element is discarded when full
deque_appendleft(d, x, maxlen) ==
    IF Len(d) >= maxlen THEN <<x>> \o SubSeq(d, 1, maxlen - 1) ELSE <<x>> \o d

RECURSIVE count_all(_, _)
\* for key in keys: d[key] += 1
count_all(d, keys) ==
    IF keys = <<>> THEN d ELSE count_all(increment(d, Head(keys)), Tail(keys))

(***************************************************************************)
(* EnhancedStats.update_time_based_metrics                                 *)
(***************************************************************************)
\* update_time_based_metrics appending the minute counter without resetting it
update_time_based_metrics_keep_counter ==
    LET current_time == now
        roll_minute == current_time - last_minute_timestamp >= MinuteSeconds
        roll_hour == current_time - last_hour_timestamp >= HourSeconds
        minutes == IF roll_minute
                   THEN deque_append(posts_per_minute, posts_this_minute, MinuteHistoryLen)
                   ELSE posts_per_minute
    IN  /\ posts_per_minute' = minutes
        /\ posts_this_minute' = posts_this_minute
        /\ last_minute_timestamp' = IF roll_minute THEN current_time
                                    ELSE last_minute_timestamp
        /\ posts_per_hour' = IF roll_hour
                             THEN deque_append(posts_per_hour, Sum(minutes), HourHistoryLen)
                             ELSE posts_per_hour
        /\ last_hour_timestamp' = IF roll_hour THEN current_time ELSE last_hour_timestamp

\* update_time_based_metrics catching up: one entry for the window that ended
\* and an empty one for every further whole minute or hour that elapsed
update_time_based_metrics_catch_up ==
    LET current_time == now
        roll_minute == current_time - last_minute_timestamp >= MinuteSeconds
        roll_hour == current_time - last_hour_timestamp >= HourSeconds
        first == deque_append(posts_per_minute, posts_this_minute, MinuteHistoryLen)
        minutes == IF ~roll_minute THEN posts_per_minute
                   ELSE IF current_time - last_minute_timestamp >= 2 * MinuteSeconds
                        THEN deque_append(first, 0, MinuteHistoryLen)
                        ELSE first
        hour == deque_append(posts_per_hour, Sum(minutes), HourHistoryLen)
    IN  /\ posts_per_minute' = minutes
        /\ posts_this_minute' = IF roll_minute THEN 0 ELSE posts_this_minute
        /\ last_minute_timestamp' = IF roll_minute THEN current_time
                                    ELSE last_minute_timestamp
        /\ posts_per_hour' = IF ~roll_hour THEN posts_per_hour
                             ELSE IF current_time - last_hour_timestamp >= 2 * HourSeconds
                                  THEN deque_append(hour, 0, HourHistoryLen)
                                  ELSE hour
        /\ last_hour_timestamp' = IF roll_hour THEN current_time ELSE last_hour_timestamp

\* update_time_based_metrics with the record in progress counted in the window
\* that begins: the entry appended leaves it out
update_time_based_metrics_carry ==
    LET current_time == now
        roll_minute == current_time - last_minute_timestamp >= MinuteSeconds
        roll_hour == current_time - last_hour_timestamp >= HourSeconds
        minutes == IF roll_minute
                   THEN deque_append(posts_per_minute, posts_this_minute - 1,
                                     MinuteHistoryLen)
                   ELSE posts_per_minute
    IN  /\ posts_per_minute' = minutes
        /\ posts_this_minute' = IF roll_minute THEN 1 ELSE posts_this_minute
        /\ last_minute_timestamp' = IF roll_minute THEN current_time
                                    ELSE last_minute_timestamp
        /\ posts_per_hour' = IF roll_hour
                             THEN deque_append(posts_per_hour, Sum(minutes), HourHistoryLen)
                             ELSE posts_per_hour
        /\ last_hour_timestamp' = IF roll_hour THEN current_time ELSE last_hour_timestamp

\* update_time_based_metrics with the minute counter reset before it is
\* appended to the history
update_time_based_metrics_reset_first ==
    LET current_time == now
        roll_minute == current_time - last_minute_timestamp >= MinuteSeconds
        roll_hour == current_time - last_hour_timestamp >= HourSeconds
        minutes == IF roll_minute
                   THEN deque_append(posts_per_minute, 0, MinuteHistoryLen)
                   ELSE posts_per_minute
    IN  /\ posts_per_minute' = minutes
        /\ posts_this_minute' = IF roll_minute THEN 0 ELSE posts_this_minute
        /\ last_minute_timestamp' = IF roll_minute THEN current_time
                                    ELSE last_minute_timestamp
        /\ posts_per_hour' = IF roll_hour
                             THEN deque_append(posts_per_hour, Sum(minutes), HourHistoryLen)
                             ELSE posts_per_hour
        /\ last_hour_timestamp' = IF roll_hour THEN current_time ELSE last_hour_timestamp

update_time_based_metrics ==
    LET current_time == now
        roll_minute == current_time - last_minute_timestamp >= MinuteSeconds
        roll_hour == current_time - last_hour_timestamp >= HourSeconds
        minutes == IF roll_minute
                   THEN deque_append(posts_per_minute, posts_this_minute, MinuteHistoryLen)
                   ELSE posts_per_minute
    IN  /\ posts_per_minute' = minutes
        /\ posts_this_minute' = IF roll_minute THEN 0 ELSE posts_this_minute
        /\ last_minute_timestamp' = IF roll_minute THEN current_time
                                    ELSE last_minute_timestamp
        /\ posts_per_hour' = IF roll_hour
                             THEN deque_append(posts_per_hour, Sum(minutes), HourHistoryLen)
                             ELSE posts_per_hour
        /\ last_hour_timestamp' = IF roll_hour THEN current_time ELSE last_hour_timestamp

(***************************************************************************)
(* The ingestion thread: on_message_handler calling process_post, one      *)
(* record at a time.                                                       *)
(***************************************************************************)
\* the entry of evlog for the record being processed, with its result set
Logged(result) == [evlog EXCEPT ![Len(evlog)].result = result]

\* absorb with a rollback: the failed record's waiting tasks are taken back
absorb_and_roll_back ==
    /\ ipc' = "idle"
    /\ cur' = NoEvent
    /\ k' = 0
    /\ evlog' = Logged("failed")
    /\ file_queue' = SelectSeq(file_queue, LAMBDA t : t.ev # Len(evlog))

\* process_post's except clause: the error is printed, the handler returns
absorb ==
    /\ ipc' = "idle"
    /\ cur' = NoEvent
    /\ k' = 0
    /\ evlog' = Logged("failed")
    /\ file_queue' = file_queue

\* after_posts with the Media tasks put first and the Links tasks never
after_posts_media_first(e) ==
    IF has_images(e) /\ e.images > 0 THEN "media" ELSE "time"

\* the step of write_to_user_files that follows the put of the Posts task
\* or of the n-th Links / Media task
after_posts(e) ==
    IF has_links(e) /\ link_count(e.facets) > 0 THEN "links"
    ELSE IF has_images(e) /\ e.images > 0 THEN "media"
    ELSE "time"

after_links(e) ==
    IF has_images(e) /\ e.images > 0 THEN "media" ELSE "time"

\* evlog with the task about to be put added to the current record's entry
LoggedPut(table) ==
    [evlog EXCEPT ![Len(evlog)].tasks = @ \cup {nput + 1},
                  ![Len(evlog)].posts_task = IF table = "posts" THEN nput + 1 ELSE @]

\* write_to_user_files: post_row
post_row(e) ==
    << e.createdAt,
       clean_text(e.text),
       flag(has_images(e)),
       flag(has_links(e)),
       flag(e.reply.present),
       e.reply.parent,
       e.reply.root,
       str(image_count(e)),
       str(link_count(e.facets)),
       str(Len(extract_hashtags(e.text))) >>

\* write_to_user_files: link_row of the n-th link feature
link_row(e, n) ==
    << e.createdAt,
       link_uris(e.facets)[n],
       extract_domains(link_uris(e.facets)[n]),
       clean_text(e.text) >>

\* write_to_user_files: media_row of an image (the items carry no alt or mime)
media_row(e) == << e.createdAt, clean_text(<<>>), <<>>, clean_text(e.text) >>

\* a write task: (file_path, row, headers), with the history of who put it
task(author_did, table, row) ==
    [id |-> nput + 1, file |-> user_file(author_did, table), ev |-> Len(evlog),
     row |-> row]

\* on_message_handler hands a post record to process_post, which resolves the
\* author's files and directory (get_user_dir creates the directory)
Dispatch(e) ==
    /\ Running
    /\ ipc = "idle"
    /\ cur' = e
    /\ k' = 0
    /\ dirs' = dirs \cup {safe_did(e.author)}
    /\ ipc' = "check"
    /\ evlog' = Append(evlog, [author |-> e.author, result |-> "running",
                                run |-> restarts, tasks |-> {}, posts_task |-> 0,
                                start |-> now, event |-> e])
    /\ UNCHANGED <<dispvars, counted, exists, content, analytics, statvars, file_queue,
                   last_system_update, wrvars, mpc, now, nput, pill_id, handled,
                   failed_writes, first_seen, ev_times, faults, restarts>>

\* a record arrives, as long as the model's bound on records allows
Receive(e) == Len(evlog) < MaxEvents /\ Dispatch(e)

\* if not user_counted_file.exists(): self.stats.total_users += 1
CheckCounted ==
    /\ Running
    /\ ipc = "check"
    /\ IF safe_did(cur.author) \notin counted
       THEN /\ total_users' = total_users + 1
            /\ ipc' = "touch"
       ELSE /\ total_users' = total_users
            /\ ipc' = "stats"
    /\ UNCHANGED <<dispvars, fsvars, start_time, total_posts, posts_this_minute, posts_per_minute,
                   posts_per_hour, last_minute_timestamp, last_hour_timestamp,
                   postvars, processing_times, file_queue, last_system_update, cur, k, wrvars, mpc, now,
                   histvars, faults, restarts>>

\* TouchCounted without the touch(): no marker is left
TouchCountedNoMarker ==
    /\ Running
    /\ ipc = "touch"
    /\ first_seen' = [first_seen EXCEPT ![cur.author] = @ + 1]
    /\ ipc' = "stats"
    /\ UNCHANGED <<dispvars, fsvars, statvars, file_queue, last_system_update, cur, k, wrvars,
                   mpc, now, nput, pill_id, handled, failed_writes, evlog, ev_times,
                   faults, restarts>>

\* user_counted_file.touch()
TouchCounted ==
    /\ Running
    /\ ipc = "touch"
    /\ counted' = counted \cup {safe_did(cur.author)}
    /\ first_seen' = [first_seen EXCEPT ![cur.author] = @ + 1]
    /\ ipc' = "stats"
    /\ UNCHANGED <<dispvars, dirs, exists, content, analytics, statvars, file_queue,
                   last_system_update, cur, k, wrvars, mpc, now, nput, pill_id,
                   handled, failed_writes, evlog, ev_times, faults, restarts>>

\* domains without the test domain != "unknown"
domains_with_unknown(facets) ==
    [i \in 1..Len(link_uris(facets)) |-> extract_domains(link_uris(facets)[i])]

\* process_post: the domains counted for the record's link features
domains(facets) ==
    SelectSeq([i \in 1..Len(link_uris(facets)) |-> extract_domains(link_uris(facets)[i])],
              LAMBDA domain : domain # Unknown)

\* process_post: the lower-cased hashtags of the text
tags(text) ==
    [i \in 1..Len(extract_hashtags(text)) |-> lower(extract_hashtags(text)[i])]

\* "Update basic stats" down to "Process hashtags"
RecordStats ==
    /\ Running
    /\ ipc = "stats"
    /\ total_posts' = total_posts + 1
    /\ posts_this_minute' = posts_this_minute + 1
    /\ recent_posts' = deque_appendleft(recent_posts,
                            [time |-> now, author |-> cur.author,
                             text |-> clean_text(cur.text)], RecentPostsLen)
    /\ posts_with_images' = posts_with_images + (IF cur.embed = "images" THEN 1 ELSE 0)
    /\ posts_with_links' = posts_with_links + Len(link_uris(cur.facets))
    /\ popular_domains' = count_all(popular_domains, domains(cur.facets))
    /\ hashtag_stats' = count_all(hashtag_stats, tags(cur.text))
    /\ ipc' = "posts"
    /\ UNCHANGED <<dispvars, fsvars, start_time, total_users, posts_per_minute, posts_per_hour,
                   last_minute_timestamp, last_hour_timestamp, processing_times,
                   file_queue,
                   last_system_update, cur, k, wrvars, mpc, now, histvars, faults, restarts>>

\* write_to_user_files up to self.file_queue.put((user_files['posts'], ...))
EnqueuePosts ==
    /\ Running
    /\ ipc = "posts"
    /\ cur.embed # "null"
    /\ file_queue' = put(file_queue, task(cur.author, "posts", post_row(cur)))
    /\ nput' = nput + 1
    /\ evlog' = LoggedPut("posts")
    /\ k' = 1
    /\ ipc' = after_posts(cur)
    /\ UNCHANGED <<dispvars, fsvars, statvars, last_system_update, cur, wrvars, mpc, now,
                   pill_id, handled, failed_writes, first_seen, ev_times,
                   faults, restarts>>

\* raw_data['embed'].get('$type') on an embed that is not a dict raises
\* AttributeError before anything is put
EnqueuePostsRaises ==
    /\ Running
    /\ ipc = "posts"
    /\ cur.embed = "null"
    /\ absorb
    /\ UNCHANGED <<dpc, shown, fsvars, statvars, last_system_update, wrvars, mpc,
                   now, nput, pill_id, handled, failed_writes, first_seen,
                   ev_times, faults, restarts>>
    \* process_post returns: the statistics are between two records
    /\ boundaries' = boundaries \cup {View'}

\* the put of the k-th link feature's Links task
EnqueueLink ==
    /\ Running
    /\ ipc = "links"
    /\ file_queue' = put(file_queue, task(cur.author, "links", link_row(cur, k)))
    /\ nput' = nput + 1
    /\ evlog' = LoggedPut("links")
    /\ IF k < link_count(cur.facets)
       THEN k' = k + 1 /\ ipc' = "links"
       ELSE k' = 1 /\ ipc' = after_links(cur)
    /\ UNCHANGED <<dispvars, fsvars, statvars, last_system_update, cur, wrvars, mpc, now,
                   pill_id, handled, failed_writes, first_seen, ev_times,
                   faults, restarts>>

\* the put of the k-th image's Media task
EnqueueMedia ==
    /\ Running
    /\ ipc = "media"
    /\ file_queue' = put(file_queue, task(cur.author, "media", media_row(cur)))
    /\ nput' = nput + 1
    /\ evlog' = LoggedPut("media")
    /\ IF k < cur.images
       THEN k' = k + 1 /\ ipc' = "media"
       ELSE k' = 0 /\ ipc' = "time"
    /\ UNCHANGED <<dispvars, fsvars, statvars, last_system_update, cur, wrvars, mpc, now,
                   pill_id, handled, failed_writes, first_seen, ev_times,
                   faults, restarts>>

\* self.stats.update_time_based_metrics()
UpdateTime ==
    /\ Running
    /\ ipc = "time"
    /\ update_time_based_metrics
    /\ ev_times' = Append(ev_times, now)
    /\ ipc' = "perf"
    /\ UNCHANGED <<dispvars, fsvars, start_time, total_users, total_posts, postvars,
                   processing_times, file_queue, last_system_update, cur, k, wrvars, mpc, now, nput, pill_id, handled, failed_writes,
                   evlog, first_seen, faults, restarts>>

\* self.stats.processing_times.append(time.time() - start_time)
record_processing_time ==
    processing_times' = deque_append(processing_times, now - evlog[Len(evlog)].start,
                                     ProcessingTimesLen)

\* whether process_post samples psutil for this record
system_update_due ==
    last_system_update = -1 \/ now - last_system_update >= 1

\* "Update performance metrics" and "Update system metrics" to the end of the try
SystemMetrics ==
    /\ Running
    /\ ipc = "perf"
    /\ last_system_update' = IF system_update_due THEN now ELSE last_system_update
    /\ ipc' = "idle"
    /\ cur' = NoEvent
    /\ k' = 0
    /\ evlog' = Logged("ok")
    /\ record_processing_time
    /\ UNCHANGED <<dpc, shown, fsvars, countvars, postvars, file_queue, wrvars, mpc, now, nput, pill_id,
                   handled, failed_writes, first_seen, ev_times, faults, restarts>>
    \* process_post returns: the statistics are between two records
    /\ boundaries' = boundaries \cup {View'}

\* self.process.memory_info() / cpu_percent() raises a psutil error
SystemMetricsRaises ==
    /\ Running
    /\ faults < MaxFaults
    /\ faults' = faults + 1
    /\ ipc = "perf"
    /\ system_update_due
    /\ record_processing_time
    /\ absorb
    /\ UNCHANGED <<dpc, shown, fsvars, countvars, postvars, last_system_update, wrvars, mpc,
                   now, nput, pill_id, handled, failed_writes, first_seen,
                   ev_times, restarts>>
    \* process_post returns: the statistics are between two records
    /\ boundaries' = boundaries \cup {View'}

(***************************************************************************)
(* The writer thread: file_writer                                          *)
(***************************************************************************)
\* drop_task without the except clause: the error ends file_writer
drop_task_and_die ==
    /\ wpc' = "done"
    /\ opened' = {}
    /\ handled' = handled \cup {data.id}
    /\ failed_writes' = failed_writes \cup {data.id}
    /\ data' = NoTask

\* the writer's except clause: the error is printed and the loop goes on
drop_task ==
    /\ wpc' = "get"
    /\ opened' = {}
    /\ handled' = handled \cup {data.id}
    /\ failed_writes' = failed_writes \cup {data.id}
    /\ data' = NoTask

\* data = self.file_queue.get(); the poison pill ends the loop; otherwise
\* file_exists = file_path.exists()
WriterGet ==
    /\ Running
    /\ wpc = "get"
    /\ file_queue # <<>>
    /\ file_queue' = Tail(file_queue)
    /\ IF get(file_queue) = Pill
       THEN /\ wpc' = "done"
            /\ data' = NoTask
            /\ file_exists' = FALSE
       ELSE /\ wpc' = "open"
            /\ data' = get(file_queue)
            /\ file_exists' = (get(file_queue).file \in exists)
    /\ UNCHANGED <<dispvars, fsvars, statvars, last_system_update, ingvars, opened, mpc, now,
                   histvars, faults, restarts>>

\* WriterOpen with mode 'w' whether or not the file exists
WriterOpenTruncates ==
    /\ Running
    /\ wpc = "open"
    /\ exists' = exists \cup {data.file}
    /\ content' = [content EXCEPT ![data.file] = <<>>]
    /\ opened' = opened \cup {<<"writer", data.file>>}
    /\ wpc' = "write"
    /\ UNCHANGED <<dispvars, dirs, counted, analytics, statvars, file_queue,
                   last_system_update, ingvars, data, file_exists, mpc, now,
                   histvars, faults, restarts>>

\* open(file_path, 'a' if file_exists else 'w'): mode 'w' creates the file,
\* or empties it
WriterOpen ==
    /\ Running
    /\ wpc = "open"
    /\ exists' = exists \cup {data.file}
    /\ content' = IF file_exists THEN content
                  ELSE [content EXCEPT ![data.file] = <<>>]
    /\ opened' = opened \cup {<<"writer", data.file>>}
    /\ wpc' = "write"
    /\ UNCHANGED <<dispvars, dirs, counted, analytics, statvars, file_queue,
                   last_system_update, ingvars, data, file_exists, mpc, now,
                   histvars, faults, restarts>>

\* open() raises: nothing is created
WriterOpenRaises ==
    /\ Running
    /\ faults < MaxFaults
    /\ faults' = faults + 1
    /\ wpc = "open"
    /\ drop_task
    /\ UNCHANGED <<dispvars, fsvars, statvars, file_queue, last_system_update, ingvars,
                   file_exists, mpc, now, nput, pill_id, evlog, first_seen,
                   ev_times, restarts>>

\* the rows one task appends: the header when the file did not exist, the row
rows_of(t, existed) ==
    IF existed THEN <<DataRow(t)>> ELSE <<HeaderRow, DataRow(t)>>

\* WriterAppend without the with block: the handle stays open
WriterAppendNoClose ==
    /\ Running
    /\ wpc = "write"
    /\ content' = [content EXCEPT ![data.file] = @ \o rows_of(data, file_exists)]
    /\ handled' = handled \cup {data.id}
    /\ wpc' = "get"
    /\ data' = NoTask
    /\ UNCHANGED <<dispvars, dirs, counted, exists, analytics, statvars, file_queue,
                   last_system_update, ingvars, file_exists, opened, mpc, now, nput,
                   pill_id, failed_writes, evlog, first_seen, ev_times, faults,
                   restarts>>

\* writer.writerow(headers), writer.writerow(row) and the close at the end of
\* the with block
WriterAppend ==
    /\ Running
    /\ wpc = "write"
    /\ content' = [content EXCEPT ![data.file] = @ \o rows_of(data, file_exists)]
    /\ opened' = {}
    /\ handled' = handled \cup {data.id}
    /\ wpc' = "get"
    /\ data' = NoTask
    /\ UNCHANGED <<dispvars, dirs, counted, exists, analytics, statvars, file_queue,
                   last_system_update, ingvars, file_exists, mpc, now, nput,
                   pill_id, failed_writes, evlog, first_seen, ev_times, faults, restarts>>

\* a write raises: the row does not reach the file; of a new file's header
\* either nothing (the flush at close failed) or the whole row (writerow(row)
\* failed and the close flushed the header) reaches it
WriterAppendRaises ==
    /\ Running
    /\ faults < MaxFaults
    /\ faults' = faults + 1
    /\ wpc = "write"
    /\ \E header_kept \in {FALSE, ~file_exists} :
          content' = [content EXCEPT ![data.file] =
                         IF header_kept THEN @ \o <<HeaderRow>> ELSE @]
    /\ drop_task
    /\ UNCHANGED <<dispvars, dirs, counted, exists, analytics, statvars, file_queue,
                   last_system_update, ingvars, file_exists, mpc, now, nput,
                   pill_id, evlog, first_seen, ev_times, restarts>>

(***************************************************************************)
(* The main thread: start()                                                *)
(***************************************************************************)
\* Shutdown with the poison pill put ahead of the waiting tasks
ShutdownUrgent ==
    /\ mpc = "display"
    /\ file_queue' = <<Pill>> \o file_queue
    /\ pill_id' = nput
    /\ mpc' = "join"
    /\ UNCHANGED <<dispvars, fsvars, statvars, last_system_update, ingvars, wrvars, now,
                   nput, handled, failed_writes, evlog, first_seen, ev_times,
                   faults, restarts>>

\* Shutdown without the poison pill: start() goes straight to join()
ShutdownNoPill ==
    /\ mpc = "display"
    /\ file_queue' = file_queue
    /\ pill_id' = nput
    /\ mpc' = "join"
    /\ UNCHANGED <<dispvars, fsvars, statvars, last_system_update, ingvars, wrvars, now,
                   nput, handled, failed_writes, evlog, first_seen, ev_times,
                   faults, restarts>>

\* KeyboardInterrupt in the display loop: self.file_queue.put(None)
Shutdown ==
    /\ mpc = "display"
    /\ file_queue' = put(file_queue, Pill)
    /\ pill_id' = nput
    /\ mpc' = "join"
    /\ UNCHANGED <<dispvars, fsvars, statvars, last_system_update, ingvars, wrvars, now,
                   nput, handled, failed_writes, evlog, first_seen, ev_times,
                   faults, restarts>>

\* self.writer_thread.join() returns once file_writer has returned
Join ==
    /\ mpc = "join"
    /\ wpc = "done"
    /\ mpc' = "export"
    /\ UNCHANGED <<dispvars, fsvars, statvars, file_queue, last_system_update, ingvars,
                   wrvars, now, histvars, faults, restarts>>

\* the final analytics file is written and start() returns: the process ends
\* and its daemon threads with it
Export ==
    /\ mpc = "export"
    /\ analytics' = analytics + 1
    /\ mpc' = "exited"
    /\ UNCHANGED <<dispvars, dirs, counted, exists, content, statvars, file_queue,
                   last_system_update, ingvars, wrvars, now, histvars, faults, restarts>>

(***************************************************************************)
(* The specification of one process lifetime on an empty data directory,   *)
(* within one second of wall-clock time.                                   *)
(***************************************************************************)
Next ==
    \/ \E e \in Events : Receive(e)
    \/ CheckCounted
    \/ TouchCounted
    \/ RecordStats
    \/ EnqueuePosts
    \/ EnqueuePostsRaises
    \/ EnqueueLink
    \/ EnqueueMedia
    \/ UpdateTime
    \/ SystemMetrics
    \/ SystemMetricsRaises
    \/ WriterGet
    \/ WriterOpen
    \/ WriterOpenRaises
    \/ WriterAppend
    \/ WriterAppendRaises
    \/ Shutdown
    \/ Join
    \/ Export

Spec == Init /\ [][Next]_vars

(***************************************************************************)
(* The wall clock, and the window specification: the ingestion thread      *)
(* alone, over more than two minutes of wall-clock time.                   *)
(***************************************************************************)
TickSteps == {59, 60, 61}

Tick(d) ==
    /\ Running
    /\ now + d <= MaxTime
    /\ now' = now + d
    /\ UNCHANGED <<dispvars, fsvars, statvars, file_queue, last_system_update, ingvars,
                   wrvars, mpc, histvars, faults, restarts>>

NextWin ==
    \/ \E d \in TickSteps : Tick(d)
    \/ \E e \in Events : Receive(e)
    \/ CheckCounted
    \/ TouchCounted
    \/ RecordStats
    \/ EnqueuePosts
    \/ EnqueuePostsRaises
    \/ EnqueueLink
    \/ EnqueueMedia
    \/ UpdateTime
    \/ SystemMetrics
    \/ SystemMetricsRaises

SpecWin == Init /\ [][NextWin]_vars

(***************************************************************************)
(* A restart: the process ends at any point (its daemon threads and its    *)
(* queue with it) and FirehoseMonitor() is constructed again on the same   *)
(* data directory.                                                         *)
(***************************************************************************)
\* init_user_count: the directories holding at least one .csv file
dirs_with_data == { d \in dirs : \E t \in Tables : <<d, t>> \in exists }

init_user_count ==
    /\ total_users' = Cardinality(dirs_with_data)
    /\ counted' = counted \cup dirs_with_data

Restart ==
    /\ restarts < MaxRestarts
    /\ restarts' = restarts + 1
    \* EnhancedStats()
    /\ start_time' = now
    /\ total_posts' = 0
    /\ posts_this_minute' = 0
    /\ posts_per_minute' = <<>>
    /\ posts_per_hour' = <<>>
    /\ last_minute_timestamp' = now
    /\ last_hour_timestamp' = now
    /\ posts_with_images' = 0
    /\ posts_with_links' = 0
    /\ popular_domains' = EmptyMap
    /\ hashtag_stats' = EmptyMap
    /\ recent_posts' = <<>>
    /\ processing_times' = <<>>
    /\ init_user_count
    \* Queue(), the writer thread, start()
    /\ file_queue' = <<>>
    /\ last_system_update' = -1
    /\ ipc' = "idle"
    /\ cur' = NoEvent
    /\ k' = 0
    /\ wpc' = "get"
    /\ data' = NoTask
    /\ file_exists' = FALSE
    /\ opened' = {}
    /\ mpc' = "display"
    /\ pill_id' = 0
    /\ ev_times' = <<>>
    /\ evlog' = IF ipc = "idle" THEN evlog ELSE Logged("killed")
    /\ UNCHANGED <<dirs, exists, content, analytics, now, nput, handled,
                   failed_writes, first_seen, faults>>
    \* Live(self.update_display()): the display starts from the new statistics
    /\ dpc' = "metrics"
    /\ shown' = View'
    /\ boundaries' = {View'}

\* the records of the restart specification: posts without facets and images
RestartEvents == { e \in Events : e.facets = <<>> /\ e.embed # "images" }

NextRestart ==
    \/ Restart
    \/ \E e \in RestartEvents : Receive(e)
    \/ CheckCounted
    \/ TouchCounted
    \/ RecordStats
    \/ EnqueuePosts
    \/ EnqueuePostsRaises
    \/ UpdateTime
    \/ SystemMetrics
    \/ SystemMetricsRaises
    \/ WriterGet
    \/ WriterOpen
    \/ WriterOpenRaises
    \/ WriterAppend
    \/ WriterAppendRaises
    \/ Shutdown
    \/ Join
    \/ Export

SpecRestart == Init /\ [][NextRestart]_vars

(***************************************************************************)
(* Properties                                                              *)
(***************************************************************************)
\* the positions of the data rows of file f
DataRows(f) == { i \in 1..Len(content[f]) : content[f][i].kind = "row" }

\* the ids of the tasks waiting in the queue
Queued == { file_queue[i].id : i \in 1..Len(file_queue) } \ {Pill.id}

\* C1: two tasks for the same file, put in the order T1, T2 (a task's id is its
\* put number), have their rows in the file in that order whenever both rows
\* are in the file.
C1_FifoPerFile ==
    \A f \in Files : \A i, j \in DataRows(f) :
        i < j => content[f][i].id < content[f][j].id

\* two rows of one file, put by different records
C1_Witness ==
    \E f \in Files : \E i, j \in DataRows(f) :
        /\ i < j
        /\ content[f][i].ev # content[f][j].ev
        /\ ipc = "idle"

\* C2: at most one append is in progress, it is the writer thread's, on the
\* file of the task it holds, and the file is closed whenever the writer is
\* not inside the with block (so before it takes the next task).
C2_OneAppendAtATime ==
    /\ Cardinality(opened) <= 1
    /\ \A h \in opened : h = <<"writer", data.file>>
    /\ wpc # "write" => opened = {}

\* an append in progress while process_post is inside write_to_user_files for
\* the same author and more tasks wait
C2_Witness ==
    /\ opened # {}
    /\ ipc \in {"links", "media"}
    /\ file_queue # <<>>
    /\ data.file[1] = safe_did(cur.author)

\* C3: when the writer has exited, every task put before the poison pill has
\* been taken and processed by it; the final analytics file is written only
\* after the writer has exited.
C3_DrainedBeforeExport ==
    /\ wpc = "done" => \A id \in 1..pill_id : id \in handled
    /\ analytics > 0 => wpc = "done"

\* the export done after a shutdown that found tasks waiting
C3_Witness ==
    /\ analytics = 1
    /\ pill_id >= 2
    /\ wpc = "done"

\* C4: once start() has put the poison pill, process_post puts no further
\* task and changes no statistic.
C4_IngestionStoppedBeforePill ==
    [][mpc # "display" => (nput' = nput /\ statvars' = statvars)]_vars

\* the writer is idle or gone, nothing waits and no record is being processed
Quiescent ==
    /\ file_queue = <<>>
    /\ wpc \in {"get", "done"}
    /\ ipc = "idle"

\* the records of author a with the given result
EventsOf(a, result) ==
    { i \in 1..Len(evlog) : evlog[i].author = a /\ evlog[i].result = result }

\* the ids of the Posts tasks put for author a's records
PostsTasksOf(a) ==
    { evlog[i].posts_task : i \in { n \in 1..Len(evlog) : evlog[n].author = a } } \ {0}

\* C5 as stated: once the writer has drained the queue, the Posts file of each
\* author has as many rows as the author has successfully dispatched records.
C5_RowsEqualDispatched ==
    Quiescent =>
        \A a \in Authors :
            Cardinality(DataRows(user_file(a, "posts"))) =
                Cardinality(EventsOf(a, "ok"))

\* C5 amended: once the writer has drained the queue, the rows of an author's
\* Posts file are, once each, the Posts tasks put for that author's records
\* whose append did not fail; every successfully dispatched record had its
\* Posts task put.
C5_RowsEqualPutMinusFailed ==
    Quiescent =>
        \A a \in Authors :
            LET f == user_file(a, "posts")
                rows == { content[f][i].id : i \in DataRows(f) }
            IN  /\ rows = PostsTasksOf(a) \ failed_writes
                /\ Cardinality(DataRows(f)) = Cardinality(rows)
                /\ \A i \in EventsOf(a, "ok") : evlog[i].posts_task # 0

\* a drained queue with a row of a failed record, and an author with two rows
C5_Witness ==
    /\ Quiescent
    /\ \E a \in Authors :
          /\ Cardinality(DataRows(user_file(a, "posts"))) = 2
          /\ \E i \in EventsOf(a, "failed") : evlog[i].posts_task # 0
          /\ \E i \in EventsOf(a, "ok") : TRUE

\* C6: the first-seen branch (marker absent, total_users += 1, marker created)
\* completes at most once per author, restarts included: once it has, the
\* marker exists, and the check is true only for an author for whom it has
\* not completed.
C6_FirstSeenOnce ==
    /\ \A a \in Authors :
          /\ first_seen[a] <= 1
          /\ first_seen[a] = 1 => safe_did(a) \in counted
    /\ ipc = "touch" => first_seen[cur.author] = 0

\* two dispatched records of one author, one before and one after a restart,
\* the first of which was first-seen
C6_Witness ==
    \E i, j \in 1..Len(evlog) :
        /\ evlog[i].author = evlog[j].author
        /\ evlog[i].run = 0 /\ evlog[i].result = "ok"
        /\ evlog[j].run = 1 /\ evlog[j].result = "ok"
        /\ first_seen[evlog[i].author] = 1

\* exactly two records were processed, and their window advances read clock
\* values 61 seconds apart
TwoEvents61Apart ==
    /\ Len(evlog) = 2
    /\ ipc = "idle"
    /\ Len(ev_times) = 2
    /\ ev_times[2] - ev_times[1] = 61

\* C7 as stated: after two events 61 seconds apart the minute history holds
\* exactly one entry, the count accumulated before the rollover (both events),
\* whatever the delay between process start and event 1.
C7_OneEntryAnyDelay ==
    TwoEvents61Apart => posts_per_minute = <<total_posts>> /\ total_posts = 2

\* C7 amended: the same, when event 1 is processed less than 60 seconds after
\* the statistics were constructed.
C7_OneEntryWithinFirstMinute ==
    (TwoEvents61Apart /\ ev_times[1] - start_time < MinuteSeconds) =>
        posts_per_minute = <<total_posts>> /\ total_posts = 2

\* event 1 at 59 seconds after start, event 2 at 120
C7_Witness ==
    /\ TwoEvents61Apart
    /\ ev_times[1] - start_time = MinuteSeconds - 1
    /\ posts_per_minute = <<2>>

\* C8: a failing append drops that task alone: the writer is back at get()
\* with the handle closed and the waiting tasks untouched, and the writer
\* leaves its loop only by taking the poison pill.
C8_WriterSurvivesFailure ==
    /\ [][failed_writes' # failed_writes =>
             /\ wpc' = "get"
             /\ opened' = {}
             /\ file_queue' = file_queue
             /\ handled' = handled \cup (failed_writes' \ failed_writes)]_vars
    /\ [][(wpc # "done" /\ wpc' = "done") =>
             /\ wpc = "get"
             /\ file_queue # <<>>
             /\ Head(file_queue) = Pill]_vars

\* a row written for a task put after one whose append failed
C8_Witness ==
    \E id \in failed_writes : \E f \in Files : \E i \in DataRows(f) :
        content[f][i].id > id

\* C9: a record whose processing raises is absorbed: process_post is back at
\* idle with the queue as it was, and each task the record had put is waiting,
\* with the writer, or processed by it.
C9_FailureAbsorbed ==
    /\ [][(ipc # "idle" /\ evlog' = Logged("failed")) =>
             /\ ipc' = "idle"
             /\ file_queue' = file_queue]_vars
    /\ [](\A i \in 1..Len(evlog) :
             evlog[i].result = "failed" =>
                 \A id \in evlog[i].tasks :
                     id \in Queued \/ data.id = id \/ id \in handled)

\* a failed record with its Posts row in the file, followed by a record that
\* is dispatched
C9_Witness ==
    \E i, j \in 1..Len(evlog) :
        /\ i < j
        /\ evlog[i].result = "failed"
        /\ evlog[i].posts_task # 0
        /\ \E f \in Files : \E n \in DataRows(f) : content[f][n].id = evlog[i].posts_task
        /\ evlog[j].result = "ok"

\* C10: a table file with at least one row has the header as its first row,
\* and a header nowhere else.
C10_HeaderFirst ==
    \A f \in Files :
        \A i \in 1..Len(content[f]) :
            (content[f][i] = HeaderRow) <=> (i = 1)


(***************************************************************************)
(* SpecRow: the ingestion thread alone on the records of RowEvents (the    *)
(* tasks stay on file_queue).                                              *)
(***************************************************************************)
NextRow ==
    \/ \E e \in RowEvents : Receive(e)
    \/ CheckCounted
    \/ TouchCounted
    \/ RecordStats
    \/ EnqueuePosts
    \/ EnqueuePostsRaises
    \/ EnqueueLink
    \/ EnqueueMedia
    \/ UpdateTime
    \/ SystemMetrics
    \/ SystemMetricsRaises

SpecRow == Init /\ [][NextRow]_vars

\* the tasks on file_queue put for table `table` by the i-th record
TasksOf(i, table) ==
    SelectSeq(file_queue, LAMBDA t : t.ev = i /\ t.file # <<>> /\ t.file[2] = table)

\* the i-th record has left process_post
Completed(i) == evlog[i].result # "running"

\* the Posts row of the scenario of C11
ScenarioRow ==
    << ScenarioTime, HelloWorld, <<"0">>, <<"0">>, <<"0">>, <<>>, <<>>,
       <<"0">>, <<"0">>, <<"1">> >>

World == <<"w", "o", "r", "l", "d">>

\* C11: once the record {author did:abc, text "hello #world", createdAt
\* "2024-01-01T00:00:00Z", facets [], embed null} has been dispatched as the
\* first record, its Posts task with the row ["2024-01-01T00:00:00Z",
\* "hello #world","0","0","0","","","0","0","1"] is on the queue and the hashtag
\* map is {world: 1}.
C11_ScenarioRowEnqueued ==
    (Len(evlog) = 1 /\ evlog[1].event = ScenarioEvent /\ Completed(1))
        => /\ Len(TasksOf(1, "posts")) = 1
           /\ TasksOf(1, "posts")[1].row = ScenarioRow
           /\ hashtag_stats = increment(EmptyMap, World)

\* a url with fewer than three slash-delimited segments: fewer than two slashes
Malformed(url) == Cardinality({ i \in 1..Len(url) : url[i] = "/" }) < 2

\* the link uris of the record in process_post that are not malformed
WellFormedUris == { i \in 1..Len(link_uris(cur.facets)) : ~Malformed(link_uris(cur.facets)[i]) }

RECURSIVE SumOver(_, _)
SumOver(d, keys) ==
    IF keys = {} THEN 0
    ELSE LET key == CHOOSE key \in keys : TRUE
         IN  d[key] + SumOver(d, keys \ {key})

\* the sum of the counts of a frequency map
MapTotal(d) == SumOver(d, DOMAIN d)

\* the step of process_post that updates the per-post statistics
StatsStep == ipc = "stats" /\ ipc' = "posts"

\* C12: extract_domains returns "unknown" for a url with fewer than three
\* slash-delimited segments; a link feature with such a url adds nothing to
\* popular_domains (a record whose link features are all of this kind leaves the
\* map unchanged, and the map never grows by more than the record's other link
\* features); "unknown" is never a key of popular_domains.
C12_MalformedUrlNotCounted ==
    /\ [](\A e \in RowEvents : \A i \in 1..Len(link_uris(e.facets)) :
             Malformed(link_uris(e.facets)[i])
                 => extract_domains(link_uris(e.facets)[i]) = Unknown)
    /\ [](Unknown \notin DOMAIN popular_domains)
    /\ [][StatsStep =>
            /\ MapTotal(popular_domains') <= MapTotal(popular_domains)
                                                 + Cardinality(WellFormedUris)
            /\ WellFormedUris = {} => popular_domains' = popular_domains]_vars

\* a record whose only link uri is "not-a-url" has had its statistics recorded
\* while popular_domains already held a domain
C12_Witness ==
    /\ ipc = "posts"
    /\ link_uris(cur.facets) = <<BadUri>>
    /\ Malformed(BadUri)
    /\ popular_domains # EmptyMap

(***************************************************************************)
(* SpecRecent: the ingestion thread alone on plain records of five         *)
(* authors, with no environment error.                                     *)
(***************************************************************************)
RecentEvents ==
    { event(a, [facets |-> <<>>, embed |-> "absent", images |-> 0], <<>>, <<>>, NoReply) :
        a \in AllAuthors }

ReceiveRecent(e) == Len(evlog) < MaxRecent /\ Dispatch(e)

NextRecent ==
    \/ \E e \in RecentEvents : ReceiveRecent(e)
    \/ CheckCounted
    \/ TouchCounted
    \/ RecordStats
    \/ EnqueuePosts
    \/ UpdateTime
    \/ SystemMetrics

SpecRecent == Init /\ [][NextRecent]_vars

\* C13: after n records have been recorded (total_posts = n) recent_posts holds
\* exactly min(n, 5) entries, the i-th entry being that of the i-th latest
\* record: the latest record is at the front, records older than the fifth
\* latest are gone.
C13_RecentFive ==
    /\ Len(recent_posts) = (IF total_posts < 5 THEN total_posts ELSE 5)
    /\ \A i \in 1..Len(recent_posts) :
          /\ recent_posts[i].author = evlog[total_posts - i + 1].author
          /\ recent_posts[i].text = clean_text(evlog[total_posts - i + 1].event.text)
          /\ recent_posts[i].time = evlog[total_posts - i + 1].start

\* five records of five distinct authors, then a sixth: the list holds five
\* entries, the sixth record's in front, the first record's evicted
C13_Witness ==
    /\ total_posts = 6
    /\ Cardinality({ evlog[i].author : i \in 1..5 }) = 5
    /\ Len(recent_posts) = 5
    /\ recent_posts[1].author = evlog[6].author
    /\ recent_posts[5].author = evlog[2].author

(***************************************************************************)
(* The display loop of start(): update_display builds the panels one after *)
(* the other from the fields of self.stats, with no lock and no copy.      *)
(* SpecDisplay: the display loop and the ingestion thread.                 *)
(***************************************************************************)
\* generate_header() and generate_metrics_panel()
DisplayMetrics ==
    /\ mpc = "display"
    /\ dpc = "metrics"
    /\ shown' = [shown EXCEPT !.metrics = MetricsView]
    /\ dpc' = "panels"
    /\ UNCHANGED <<fsvars, statvars, file_queue, last_system_update, ingvars, wrvars,
                   mpc, now, histvars, faults, restarts, boundaries>>

\* generate_performance_panel(), generate_recent_posts_panel() and
\* generate_analytics_panel(); the layout is handed to live.update
DisplayPanels ==
    /\ mpc = "display"
    /\ dpc = "panels"
    /\ shown' = [shown EXCEPT !.panels = PanelsView]
    /\ dpc' = "metrics"
    /\ UNCHANGED <<fsvars, statvars, file_queue, last_system_update, ingvars, wrvars,
                   mpc, now, histvars, faults, restarts, boundaries>>

NextDisplay ==
    \/ DisplayMetrics
    \/ DisplayPanels
    \/ \E e \in Events : Receive(e)
    \/ CheckCounted
    \/ TouchCounted
    \/ RecordStats
    \/ EnqueuePosts
    \/ EnqueuePostsRaises
    \/ EnqueueLink
    \/ EnqueueMedia
    \/ UpdateTime
    \/ SystemMetrics
    \/ SystemMetricsRaises

SpecDisplay == Init /\ [][NextDisplay]_vars

\* C14: the statistics shown by a completed refresh are those of one moment
\* between two complete calls of process_post.
C14_DisplayShowsBoundaryState ==
    dpc = "metrics" => shown \in boundaries

(***************************************************************************)
(* SpecHours: the ingestion thread alone on plain records, the clock       *)
(* advancing by half an hour, one hour or two hours at any point.          *)
(***************************************************************************)
HourSteps == {1800, 3600, 7200}

TickHours(d) ==
    /\ Running
    /\ now + d <= MaxHourTime
    /\ now' = now + d
    /\ UNCHANGED <<fsvars, statvars, file_queue, last_system_update, ingvars,
                   wrvars, mpc, histvars, faults, restarts, dispvars>>

PlainEvents == { e \in Events : e.facets = <<>> /\ e.embed = "absent" }

NextHours ==
    \/ \E d \in HourSteps : TickHours(d)
    \/ \E e \in PlainEvents : Receive(e)
    \/ CheckCounted
    \/ TouchCounted
    \/ RecordStats
    \/ EnqueuePosts
    \/ UpdateTime
    \/ SystemMetrics
    \/ SystemMetricsRaises

SpecHours == Init /\ [][NextHours]_vars

\* new is old with exactly one entry appended (the oldest evicted when full)
OneAppend(old, new, maxlen) ==
    new # <<>> /\ new = deque_append(old, new[Len(new)], maxlen)

\* the step is the window advance of the record in process_post
WindowAdvance == ipc = "time" /\ ipc' = "perf" /\ Len(ev_times') = Len(ev_times) + 1

\* C15: the minute history and the hour history change only in the window
\* advance of a record, which runs at most once per record and appends at most
\* one entry to each, whatever time has elapsed; a step without a record (the
\* clock advancing) leaves both histories as they are.
C15_RolloverOnlyOnEvent ==
    /\ [](Len(ev_times) <= Len(evlog))
    /\ [][/\ posts_per_minute' # posts_per_minute =>
                 (WindowAdvance /\ OneAppend(posts_per_minute, posts_per_minute',
                                             MinuteHistoryLen))
          /\ posts_per_hour' # posts_per_hour =>
                 (WindowAdvance /\ OneAppend(posts_per_hour, posts_per_hour',
                                             HourHistoryLen))]_vars

\* the first window advance ran two hours after the start: one entry in each
\* history
C15_Witness ==
    /\ Len(ev_times) = 1
    /\ ev_times[1] - start_time = 2 * HourSeconds
    /\ Len(posts_per_minute) = 1
    /\ Len(posts_per_hour) = 1

\* the step is a window advance that rolls the minute window over
MinuteRollover == WindowAdvance /\ now - last_minute_timestamp >= MinuteSeconds

\* C16: the window advance of a record runs once, after the record was counted
\* (total_posts and posts_this_minute include it).  When it rolls the minute
\* window over, the entry appended is the minute counter with the record in
\* it, so that every post counted so far is in the history, and
\* posts_this_minute is 0 from then to the end of the record.
C16_RolloverIncludesEvent ==
    /\ [](ipc = "time" => total_posts = Len(evlog) /\ Len(ev_times) = Len(evlog) - 1)
    /\ [][MinuteRollover =>
            /\ posts_this_minute >= 1
            /\ posts_per_minute' = Append(posts_per_minute, posts_this_minute)
            /\ Sum(posts_per_minute') = total_posts
            /\ posts_this_minute' = 0]_vars
    /\ [][ipc = "perf" => posts_this_minute' = posts_this_minute]_vars

\* the second record rolled the window over: the entry counts both records
C16_Witness ==
    /\ ipc = "perf"
    /\ Len(evlog) = 2
    /\ posts_per_minute = <<2>>
    /\ posts_this_minute = 0

\* the tables of the tasks on file_queue put by the i-th record, in queue order
TablesOf(i) ==
    LET tasks == SelectSeq(file_queue, LAMBDA t : t.ev = i)
    IN  [n \in 1..Len(tasks) |-> tasks[n].file[2]]

\* n times the table
Repeat(table, n) == [i \in 1..n |-> table]

\* write_to_user_files has returned for the i-th record
Written(i) ==
    /\ evlog[i].posts_task # 0
    /\ i = Len(evlog) => ipc \in {"time", "perf", "idle"}

\* the number of images of the i-th record's embed, when it is an images embed
ImagesOf(i) == IF evlog[i].event.embed = "images" THEN evlog[i].event.images ELSE 0

\* C17: for a record that write_to_user_files handled without error, the tasks
\* put are one Posts task, then one Links task per link feature, then one
\* Media task per image, and the Posts row's image_count and link_count fields
\* are the numbers of Media and Links tasks.
C17_TasksPerEvent ==
    \A i \in 1..Len(evlog) :
        Written(i) =>
            /\ TablesOf(i) = <<"posts">>
                                \o Repeat("links", Len(link_uris(evlog[i].event.facets)))
                                \o Repeat("media", ImagesOf(i))
            /\ TasksOf(i, "posts")[1].row[8] = str(Len(TasksOf(i, "media")))
            /\ TasksOf(i, "posts")[1].row[9] = str(Len(TasksOf(i, "links")))

\* a record with two link features and two images has been written
C17_Witness ==
    \E i \in 1..Len(evlog) :
        /\ Written(i)
        /\ TablesOf(i) = <<"posts", "links", "links", "media", "media">>

(***************************************************************************)
(* SpecFull: the ingestion thread alone, started from the state of a       *)
(* process that has handled 999 plain records of author d:a: 23 records an *)
(* hour apart, 36 records a minute apart, then 940 records within the same *)
(* second; the writer has written every row.  The histories are one entry  *)
(* short of their maxlen.  boundaries starts from this state.              *)
(***************************************************************************)
FullAuthor == <<"d", ":", "a">>
FullEvent ==
    event(FullAuthor, [facets |-> <<>>, embed |-> "absent", images |-> 0],
          <<>>, <<>>, NoReply)

\* the number of records handled, and the clock value of the i-th
FullRecords == ProcessingTimesLen - 1
FullTime(i) ==
    IF i <= HourHistoryLen - 1 THEN i * HourSeconds
    ELSE IF i <= MinuteHistoryLen - 1
         THEN (HourHistoryLen - 1) * HourSeconds + (i - (HourHistoryLen - 1)) * MinuteSeconds
         ELSE (HourHistoryLen - 1) * HourSeconds
                  + (MinuteHistoryLen - HourHistoryLen) * MinuteSeconds
FullStart == FullTime(FullRecords)

InitFull ==
    /\ dirs = {safe_did(FullAuthor)}
    /\ counted = {safe_did(FullAuthor)}
    /\ exists = {user_file(FullAuthor, "posts")}
    /\ content = [f \in Files |->
                     IF f = user_file(FullAuthor, "posts")
                     THEN <<HeaderRow>> \o [i \in 1..FullRecords |->
                                               [kind |-> "row", id |-> i, ev |-> i]]
                     ELSE <<>>]
    /\ analytics = 0
    /\ start_time = 0
    /\ total_users = 1
    /\ total_posts = FullRecords
    /\ posts_this_minute = FullRecords - (MinuteHistoryLen - 1)
    /\ posts_per_minute = [i \in 1..(MinuteHistoryLen - 1) |-> 1]
    /\ posts_per_hour = [i \in 1..(HourHistoryLen - 1) |-> i]
    /\ last_minute_timestamp = FullStart
    /\ last_hour_timestamp = (HourHistoryLen - 1) * HourSeconds
    /\ posts_with_images = 0
    /\ posts_with_links = 0
    /\ popular_domains = EmptyMap
    /\ hashtag_stats = EmptyMap
    /\ recent_posts = [i \in 1..RecentPostsLen |->
                          [time |-> FullStart, author |-> FullAuthor, text |-> <<>>]]
    /\ processing_times = [i \in 1..FullRecords |-> 0]
    /\ file_queue = <<>>
    /\ last_system_update = FullStart
    /\ ipc = "idle"
    /\ cur = NoEvent
    /\ k = 0
    /\ wpc = "get"
    /\ data = NoTask
    /\ file_exists = TRUE
    /\ opened = {}
    /\ mpc = "display"
    /\ dpc = "metrics"
    /\ shown = View
    /\ boundaries = {View}
    /\ now = FullStart
    /\ nput = FullRecords
    /\ pill_id = 0
    /\ handled = 1..FullRecords
    /\ failed_writes = {}
    /\ evlog = [i \in 1..FullRecords |->
                   [author |-> FullAuthor, result |-> "ok", run |-> 0, tasks |-> {i},
                    posts_task |-> i, start |-> FullTime(i), event |-> FullEvent]]
    /\ first_seen = [a \in AllAuthors |-> IF a = FullAuthor THEN 1 ELSE 0]
    /\ ev_times = [i \in 1..FullRecords |-> FullTime(i)]
    /\ faults = 0
    /\ restarts = 0

TickFull ==
    /\ Running
    /\ now + HourSeconds <= FullStart + MaxFullHours * HourSeconds
    /\ now' = now + HourSeconds
    /\ UNCHANGED <<fsvars, statvars, file_queue, last_system_update, ingvars,
                   wrvars, mpc, histvars, faults, restarts, dispvars>>

ReceiveFull(e) == Len(evlog) < FullRecords + MaxFullEvents /\ Dispatch(e)

NextFull ==
    \/ TickFull
    \/ \E e \in PlainEvents : ReceiveFull(e)
    \/ CheckCounted
    \/ TouchCounted
    \/ RecordStats
    \/ EnqueuePosts
    \/ UpdateTime
    \/ SystemMetrics

SpecFull == InitFull /\ [][NextFull]_vars

\* new is old with x appended at the back and the oldest entry, at the front,
\* dropped
ShiftedBy(old, new, x) == new = Append(Tail(old), x)

\* C18: posts_per_minute never holds more than 60 entries, posts_per_hour 24,
\* recent_posts 5, processing_times 1000; a push on a full container drops its
\* oldest entry (the last one of recent_posts, which is filled from the front)
\* and keeps the others in order.
C18_ContainersBounded ==
    /\ [](/\ Len(posts_per_minute) <= 60
          /\ Len(posts_per_hour) <= 24
          /\ Len(recent_posts) <= 5
          /\ Len(processing_times) <= 1000)
    /\ [][/\ (posts_per_minute' # posts_per_minute /\ Len(posts_per_minute) = 60) =>
                 ShiftedBy(posts_per_minute, posts_per_minute', posts_this_minute)
          /\ (posts_per_hour' # posts_per_hour /\ Len(posts_per_hour) = 24) =>
                 ShiftedBy(posts_per_hour, posts_per_hour', Sum(posts_per_minute'))
          /\ (processing_times' # processing_times /\ Len(processing_times) = 1000) =>
                 ShiftedBy(processing_times, processing_times',
                           processing_times'[1000])
          /\ (recent_posts' # recent_posts /\ Len(recent_posts) = 5) =>
                 recent_posts' = <<recent_posts'[1]>> \o SubSeq(recent_posts, 1, 4)]_vars

\* two records an hour apart after the initial state: the first filled the
\* minute history, the hour history and the processing times, the second made
\* each of them drop its oldest entry
C18_Witness ==
    /\ Len(evlog) = FullRecords + 2
    /\ ipc = "idle"
    /\ Len(posts_per_minute) = 60 /\ posts_per_minute[60] = 1
    /\ posts_per_minute[59] = FullRecords - (MinuteHistoryLen - 1) + 1
    /\ Len(posts_per_hour) = 24 /\ posts_per_hour[1] = 2
    /\ Len(processing_times) = 1000
    /\ Len(recent_posts) = 5

\* C19: posts_with_links and posts_with_images never exceed total_posts: a
\* post adds at most 1 to either counter.
C19_LinkAndMediaCountsBounded ==
    /\ posts_with_links <= total_posts
    /\ posts_with_images <= total_posts

\* the number of Posts tasks ever put on file_queue
PostsTasksPut == Cardinality({ i \in 1..Len(evlog) : evlog[i].posts_task # 0 })

\* C20: whenever no call of process_post is in progress, total_posts is the
\* number of Posts tasks ever put on file_queue.
C20_PostsCountedAreEnqueued ==
    ipc = "idle" => total_posts = PostsTasksPut

\* C21: the total user count that init_user_count sets at a restart is the
\* number of user directories that carry the .counted marker.
C21_RescanCountsMarkers ==
    [][restarts' # restarts => total_users' = Cardinality(counted')]_vars

\* C22: in every Posts row put on file_queue the has_links field is "1"
\* exactly when the record has at least one link feature (the link_count field
\* is not "0"), and the has_images field is "1" exactly when the embed is an
\* images embed.
C22_FlagsMatchCounts ==
    \A i \in 1..Len(evlog) :
        \A n \in 1..Len(TasksOf(i, "posts")) :
            LET row == TasksOf(i, "posts")[n].row
            IN  /\ row[4] = <<"1">> <=> Len(link_uris(evlog[i].event.facets)) >= 1
                /\ row[4] = <<"1">> <=> row[9] # <<"0">>
                /\ row[3] = <<"1">> <=> evlog[i].event.embed = "images"

RECURSIVE RolloversFrom(_, _)
\* the number of window advances, among those at the clock values `times`,
\* that came 60 seconds or more after the previous rollover (at first `last`)
RolloversFrom(times, last) ==
    IF times = <<>> THEN 0
    ELSE IF Head(times) - last >= 60
         THEN 1 + RolloversFrom(Tail(times), Head(times))
         ELSE RolloversFrom(Tail(times), last)

\* the minute rollovers of this process so far
Rollovers == RolloversFrom(ev_times, start_time)

\* C23: while fewer than 61 minute rollovers have occurred in this process,
\* whenever no call of process_post is in progress (each call has completed,
\* with or without error) posts_this_minute plus the sum of posts_per_minute
\* equals total_posts.
C23_PostsConserved ==
    (ipc = "idle" /\ Rollovers < 61) =>
        posts_this_minute + Sum(posts_per_minute) = total_posts

\* no call in progress after two rollovers, one of the records having failed
C23_Witness ==
    /\ ipc = "idle"
    /\ Rollovers = 2
    /\ Len(posts_per_minute) = 2
    /\ total_posts >= 2
    /\ \E i \in 1..Len(evlog) : evlog[i].result = "failed"

(***************************************************************************)
(* Shutdown under fair scheduling: the writer thread and the main thread   *)
(* take their next step whenever they can; the client thread and the       *)
(* KeyboardInterrupt come whenever they like, or never.                    *)
(***************************************************************************)
\* records of one author without an embed: a Posts task each, and a Links
\* task when the record has a link feature
StopEvents == { e \in Events : e.author = <<"d", ":", "a">> /\ e.embed = "absent" }

ReceiveStop(e) == Len(evlog) < MaxStopEvents /\ Dispatch(e)

\* one step of the writer thread, whichever it is
file_writer ==
    \/ WriterGet
    \/ WriterOpen
    \/ WriterOpenRaises
    \/ WriterAppend
    \/ WriterAppendRaises

NextStop ==
    \/ \E e \in StopEvents : ReceiveStop(e)
    \/ CheckCounted
    \/ TouchCounted
    \/ RecordStats
    \/ EnqueuePosts
    \/ EnqueueLink
    \/ UpdateTime
    \/ SystemMetrics
    \/ WriterGet
    \/ WriterOpen
    \/ WriterOpenRaises
    \/ WriterAppend
    \/ WriterAppendRaises
    \/ Shutdown
    \/ Join
    \/ Export

SpecStop ==
    Init /\ [][NextStop]_vars /\ WF_vars(file_writer) /\ WF_vars(Join) /\ WF_vars(Export)

\* the poison pill is no longer in the queue
PillTaken == \A i \in 1..Len(file_queue) : file_queue[i] # Pill

\* C24: once start() has put the poison pill and waits in join(), the writer
\* eventually takes the pill and returns, join() returns and the analytics
\* file is written, whatever the client thread puts in the meantime
C24_ShutdownTerminates ==
    (mpc = "join") ~> (PillTaken /\ wpc = "done" /\ mpc = "exited" /\ analytics = 1)

\* the process has exited after the export while the client thread, in the
\* middle of a record, had put a task behind the pill
C24_Witness ==
    /\ mpc = "exited"
    /\ wpc = "done"
    /\ analytics = 1
    /\ ipc # "idle"
    /\ \E i \in 1..Len(file_queue) : file_queue[i].id > pill_id
=============================================================================
